---- MODULE Spec2Model ----
(***************************************************************************)
(* Model of yunhu2onebot12/convert.py: Converter.convert and the handlers  *)
(* and sub-builders it calls.                                              *)
(*                                                                         *)
(* Representation of Python values                                         *)
(*   dict        a function whose DOMAIN is the set of keys present        *)
(*   list        a sequence                                                *)
(*   identifiers (eventId, chatId, chatType, contentType, ...) are TLA+    *)
(*               strings: the code only copies and compares them           *)
(*   text        (content text, names, labels, alt_message, command args)  *)
(*               is a sequence of one-character strings, so that replace,  *)
(*               strip, join and concatenation are computed; a character   *)
(*               outside ASCII is written as its code point ("U+56FE")     *)
(*   dotted string (event types, mapped types) is the list s.split("."):   *)
(*               "group.join" is <<"group", "join">>, "" is <<"">>         *)
(*   the top-level argument of convert is [py |-> <type name>, ...], a     *)
(*               dict being [py |-> "dict", items |-> <the dict>]          *)
(***************************************************************************)
EXTENDS Integers, Sequences, FiniteSets, TLC

VARIABLES data, outcome, pc

vars == <<data, outcome, pc>>

(***************************************************************************)
(* Python built-ins used by the code                                       *)
(***************************************************************************)
EmptyDict == [k \in {} |-> ""]

\* d.get(k, default)
Get(d, k, default) == IF k \in DOMAIN d THEN d[k] ELSE default

\* d.update(u), as the value of d afterwards
update(d, u) ==
    [k \in (DOMAIN d) \cup (DOMAIN u) |-> IF k \in DOMAIN u THEN u[k] ELSE d[k]]

\* one-key dict literal
Item(k, v) == k :> v

EmptyStr == <<"">>

Whitespace == {" ", "\t", "\n", "\r"}

RECURSIVE lstrip(_)
lstrip(s) ==
    IF s # <<>> /\ Head(s) \in Whitespace THEN lstrip(Tail(s)) ELSE s

RECURSIVE rstrip(_)
rstrip(s) ==
    IF s # <<>> /\ s[Len(s)] \in Whitespace
    THEN rstrip(SubSeq(s, 1, Len(s) - 1))
    ELSE s

\* str.strip()
strip(s) == rstrip(lstrip(s))

\* str.replace(old, new) for a non-empty old: every non-overlapping
\* occurrence, scanning from the left
RECURSIVE replace(_, _, _)
replace(s, old, new) ==
    IF Len(s) < Len(old) THEN s
    ELSE IF SubSeq(s, 1, Len(old)) = old
         THEN new \o replace(SubSeq(s, Len(old) + 1, Len(s)), old, new)
         ELSE <<Head(s)>> \o replace(Tail(s), old, new)

\* sep.join(parts)
RECURSIVE join(_, _)
join(sep, parts) ==
    IF parts = <<>> THEN <<>>
    ELSE IF Len(parts) = 1 THEN parts[1]
    ELSE parts[1] \o sep \o join(sep, Tail(parts))

Digit == <<"0", "1", "2", "3", "4", "5", "6", "7", "8", "9">>

\* str(n) for an int
RECURSIVE str_nat(_)
str_nat(n) ==
    IF n < 10 THEN <<Digit[n + 1]>> ELSE str_nat(n \div 10) \o <<Digit[(n % 10) + 1]>>

str_int(n) == IF n < 0 THEN <<"-">> \o str_nat(-n) ELSE str_nat(n)

\* str(b) for a bool
str_bool(b) == IF b THEN <<"T", "r", "u", "e">> ELSE <<"F", "a", "l", "s", "e">>

\* int(x / 1000) for an int x: true division, then truncation toward zero
int_div_1000(x) == IF x >= 0 THEN x \div 1000 ELSE -((-x) \div 1000)

None == [py |-> "NoneType"]

(***************************************************************************)
(* Converter._setup_event_mapping                                          *)
(***************************************************************************)
event_map ==
    (<<"message", "receive", "normal">> :> <<"message">>) @@
    (<<"message", "receive", "instruction">> :> <<"message">>) @@
    (<<"bot", "followed">> :> <<"notice", "friend_increase">>) @@
    (<<"bot", "unfollowed">> :> <<"notice", "friend_decrease">>) @@
    (<<"group", "join">> :> <<"notice", "group_member_increase">>) @@
    (<<"group", "leave">> :> <<"notice", "group_member_decrease">>) @@
    (<<"button", "report", "inline">> :> <<"notice", "yunhu_button_click">>) @@
    (<<"bot", "shortcut", "menu">> :> <<"notice", "yunhu_shortcut_menu">>) @@
    (<<"bot", "setting">> :> <<"notice", "yunhu_bot_setting">>)

(***************************************************************************)
(* Sub-builders                                                            *)
(***************************************************************************)
media_map ==
    ("image" :> <<"imageUrl", "imageName", "imageWidth", "imageHeight">>) @@
    ("video" :> <<"videoUrl", "videoName", "videoWidth", "videoHeight", "videoDuration">>) @@
    ("file" :> <<"fileUrl", "fileName", "fileSize">>)

_build_media_data(content, media_type) ==
    LET url_key == media_map[media_type][1]
        name_key == media_map[media_type][2]
        extra_keys == SubSeq(media_map[media_type], 3, Len(media_map[media_type]))
        media_data == [file_id |-> Get(content, url_key, ""),
                       url |-> Get(content, url_key, ""),
                       file_name |-> Get(content, name_key, <<>>)]
    IN  IF media_type = "image"
        THEN update(media_data, [width |-> Get(content, extra_keys[1], 0),
                                 height |-> Get(content, extra_keys[2], 0)])
        ELSE IF media_type = "video"
        THEN update(media_data, [width |-> Get(content, extra_keys[1], 0),
                                 height |-> Get(content, extra_keys[2], 0),
                                 duration |-> Get(content, extra_keys[3], 0)])
        ELSE update(media_data, Item("size", Get(content, extra_keys[1], 0)))

\* [v for i, v in enumerate(values) if i < len(selected) and selected[i]],
\* from (1-based) position i on
RECURSIVE checked_from(_, _, _)
checked_from(values, selected, i) ==
    IF i > Len(values) THEN <<>>
    ELSE (IF i <= Len(selected) /\ selected[i] THEN <<values[i]>> ELSE <<>>)
         \o checked_from(values, selected, i + 1)

\* mutation: the selection flag is not consulted
checkbox_value_ignoring_flags(field_data) ==
    LET selected == Get(field_data, "selectStatus", <<>>)
        values == Get(field_data, "selectValues", <<>>)
    IN  join(<<",">>, SubSeq(values, 1, IF Len(selected) < Len(values)
                                         THEN Len(selected) ELSE Len(values)))

checkbox_value(field_data) ==
    LET selected == Get(field_data, "selectStatus", <<>>)
        values == Get(field_data, "selectValues", <<>>)
    IN  join(<<",">>, checked_from(values, selected, 1))

field_value(field_data) ==
    LET field_type == Get(field_data, "type", "")
    IN  IF field_type = "input" THEN Get(field_data, "value", <<>>)
        ELSE IF field_type = "switch" THEN str_bool(Get(field_data, "value", FALSE))
        ELSE IF field_type = "checkbox" THEN checkbox_value(field_data)
        ELSE IF field_type = "textarea" THEN Get(field_data, "value", <<>>)
        ELSE IF field_type = "select" THEN Get(field_data, "selectValue", <<>>)
        ELSE IF field_type = "radio" THEN Get(field_data, "selectValue", <<>>)
        ELSE <<>>

\* formJson is an insertion-ordered dict: the list of its (key, value) items
_build_form_data(content, message_event) ==
    LET form_json == Get(content, "formJson", <<>>)
        form_data == [i \in 1..Len(form_json) |->
                         [id |-> form_json[i][1],
                          type |-> Get(form_json[i][2], "type", ""),
                          label |-> Get(form_json[i][2], "label", <<>>),
                          value |-> field_value(form_json[i][2])]]
    IN  [id |-> Get(message_event, "instructionId", ""),
         name |-> Get(message_event, "instructionName", <<>>),
         fields |-> form_data]

\* the dict the function builds, which it does not return
command_data(content, message_event, content_type) ==
    LET base == [name |-> Get(message_event, "commandName", <<>>),
                 id |-> str_int(Get(message_event, "commandId", 0)),
                 args |-> strip(replace(Get(content, "text", <<>>),
                                        <<"/">> \o Get(message_event, "commandName", <<>>),
                                        <<>>))]
    IN  IF content_type = "form"
        THEN update(base, Item("form", Get(content, "formJson", <<>>)))
        ELSE base

\* the function ends without a return statement: its value is None
_build_command_data(content, message_event, content_type) ==
    LET built == command_data(content, message_event, content_type)
    IN  None

(***************************************************************************)
(* Converter._handle_message_event                                         *)
(***************************************************************************)
Segment(type, segdata) == [type |-> type, data |-> segdata]

Placeholder(tag, name) == <<"[">> \o tag \o <<":">> \o name \o <<"]">>

\* mutation: the text segment is appended, alt_message.append(text) is not
primary_segment_without_alt(msg_data, content_type) ==
    IF content_type = "text" /\ Get(Get(msg_data, "content", EmptyDict), "text", <<>>) # <<>>
    THEN [segments |-> <<Segment("text",
                          [text |-> Get(Get(msg_data, "content", EmptyDict), "text", <<>>)])>>,
          alt |-> <<>>]
    ELSE [segments |-> <<>>, alt |-> <<>>]

\* the if/elif chain on content_type: what it appends to message_segments
\* and to alt_message
primary_segment(msg_data, content_type) ==
    LET content == Get(msg_data, "content", EmptyDict)
        text == Get(content, "text", <<>>)
    IN  IF content_type = "text"
        THEN IF text # <<>>
             THEN [segments |-> <<Segment("text", [text |-> text])>>, alt |-> <<text>>]
             ELSE [segments |-> <<>>, alt |-> <<>>]
        ELSE IF content_type = "image"
        THEN LET media_data == _build_media_data(content, "image")
             IN  [segments |-> <<Segment("image", media_data)>>,
                  alt |-> <<Placeholder(<<"U+56FE", "U+7247">>, Get(media_data, "file_name", <<>>))>>]
        ELSE IF content_type = "video"
        THEN LET media_data == _build_media_data(content, "video")
             IN  [segments |-> <<Segment("video", media_data)>>,
                  alt |-> <<Placeholder(<<"U+89C6", "U+9891">>, Get(media_data, "file_name", <<>>))>>]
        ELSE IF content_type = "file"
        THEN LET media_data == _build_media_data(content, "file")
             IN  [segments |-> <<Segment("file", media_data)>>,
                  alt |-> <<Placeholder(<<"U+6587", "U+4EF6">>, Get(media_data, "file_name", <<>>))>>]
        ELSE IF content_type = "form"
        THEN LET form_data == _build_form_data(content, msg_data)
             IN  [segments |-> <<Segment("yunhu_form", form_data)>>,
                  alt |-> <<Placeholder(<<"U+8868", "U+5355">>, Get(form_data, "name", <<>>))>>]
        ELSE [segments |-> <<>>, alt |-> <<>>]

\* buttons = content.get("buttons"); if buttons: ...
button_segment(msg_data) ==
    LET content == Get(msg_data, "content", EmptyDict)
    IN  IF "buttons" \in DOMAIN content /\ content["buttons"] # <<>>
        THEN [segments |-> <<Segment("yunhu_button", [buttons |-> content["buttons"]])>>,
              alt |-> << <<"[", "U+6309", "U+94AE", "]">> >>]
        ELSE [segments |-> <<>>, alt |-> <<>>]

\* mutation: the chat type is copied instead of being mapped to private/group
chat_detail_type_copied(chat_info) == Get(chat_info, "chatType", "")

chat_detail_type(chat_info) ==
    IF Get(chat_info, "chatType", "") = "bot" THEN "private" ELSE "group"

\* mutation: group_id is emitted for every chat
place_chat_id_always_group(base_event, chat_info) ==
    LET with_group == update(base_event, Item("group_id", Get(chat_info, "chatId", "")))
    IN  IF base_event["detail_type"] = "group"
        THEN with_group
        ELSE [with_group EXCEPT !["self"]["user_id"] = Get(chat_info, "chatId", "")]

place_chat_id(base_event, chat_info) ==
    IF base_event["detail_type"] = "group"
    THEN update(base_event, Item("group_id", Get(chat_info, "chatId", "")))
    ELSE [base_event EXCEPT !["self"]["user_id"] = Get(chat_info, "chatId", "")]

\* "receive.instruction" in event_type, on the components of the dotted string
contains_receive_instruction(event_type) ==
    \E i \in 1..(Len(event_type) - 1) :
        event_type[i] = "receive" /\ event_type[i + 1] = "instruction"

_handle_message_event(event_type, event_data, base_event) ==
    LET msg_data == Get(event_data, "message", EmptyDict)
        sender == Get(event_data, "sender", EmptyDict)
        chat_info == Get(event_data, "chat", EmptyDict)
        content_type == Get(msg_data, "contentType", "text")
        primary == primary_segment(msg_data, content_type)
        buttons == button_segment(msg_data)
        message_segments == primary.segments \o buttons.segments
        alt_message == primary.alt \o buttons.alt
        typed == [base_event EXCEPT !["detail_type"] = chat_detail_type(chat_info)]
        updated == update(typed,
                          [type |-> "message",
                           message_id |-> Get(msg_data, "msgId", ""),
                           message |-> message_segments,
                           alt_message |-> join(<<>>, alt_message),
                           user_id |-> Get(sender, "senderId", ""),
                           user_nickname |-> Get(sender, "senderNickname", "")])
        placed == place_chat_id(updated, chat_info)
    IN  IF contains_receive_instruction(event_type)
        THEN update(placed,
                    Item("yunhu_command",
                         _build_command_data(Get(msg_data, "content", EmptyDict),
                                             msg_data, content_type)))
        ELSE placed

(***************************************************************************)
(* The notice handlers                                                     *)
(***************************************************************************)
Self(user_id) == [platform |-> "yunhu", user_id |-> user_id]

_handle_friend_event(event_type, event_data, base_event) ==
    update(base_event,
           [type |-> "notice",
            detail_type |-> IF event_type = <<"bot", "followed">>
                            THEN "friend_increase" ELSE "friend_decrease",
            user_id |-> Get(event_data, "userId", ""),
            user_nickname |-> Get(event_data, "nickname", ""),
            self |-> Self(Get(event_data, "chatId", ""))])

_handle_group_member_event(event_type, event_data, base_event) ==
    update(base_event,
           [type |-> "notice",
            detail_type |-> IF event_type = <<"group", "join">>
                            THEN "group_member_increase" ELSE "group_member_decrease",
            sub_type |-> IF event_type = <<"group", "join">> THEN "invite" ELSE "leave",
            group_id |-> Get(event_data, "chatId", ""),
            user_id |-> Get(event_data, "userId", ""),
            user_nickname |-> Get(event_data, "nickname", ""),
            operator_id |-> "",
            self |-> Self("")])

_handle_button_event(event_type, event_data, base_event) ==
    update(base_event,
           [type |-> "notice",
            detail_type |-> "yunhu_button_click",
            user_id |-> Get(event_data, "userId", ""),
            user_nickname |-> Get(event_data, "nickname", ""),
            message_id |-> Get(event_data, "msgId", ""),
            yunhu_button |-> [id |-> Get(event_data, "buttonId", ""),
                              value |-> Get(event_data, "value", "")],
            self |-> Self("")])

_handle_menu_event(event_type, event_data, base_event) ==
    update(base_event,
           [type |-> "notice",
            detail_type |-> "yunhu_shortcut_menu",
            user_id |-> Get(event_data, "senderId", ""),
            user_nickname |-> Get(event_data, "nickname", ""),
            group_id |-> IF "chatType" \in DOMAIN event_data
                            /\ event_data["chatType"] = "group"
                         THEN Get(event_data, "chatId", "") ELSE "",
            yunhu_menu |-> [id |-> Get(event_data, "menuId", ""),
                            type |-> Get(event_data, "menuType", 1),
                            action |-> Get(event_data, "menuAction", 1)],
            self |-> Self("")])

_handle_setting_event(event_type, event_data, base_event) ==
    update(base_event,
           [type |-> "notice",
            detail_type |-> "yunhu_bot_setting",
            group_id |-> Get(event_data, "groupId", ""),
            user_nickname |-> Get(event_data, "nickname", ""),
            yunhu_setting |-> Get(event_data, "settingJson", EmptyDict),
            self |-> Self(Get(event_data, "chatId", ""))])

(***************************************************************************)
(* Converter.convert                                                       *)
(***************************************************************************)
Raise(exc) == [kind |-> "raise", exc |-> exc]

Return(value) == [kind |-> "return", ret |-> value]

isinstance_dict(d) == d.py = "dict"

\* mutation: only a missing eventType is rejected, an empty one is not
not_event_type_absent_only(header) == "eventType" \notin DOMAIN header

\* event_type = header.get("eventType", ""); not event_type
not_event_type(header) == Get(header, "eventType", EmptyStr) = EmptyStr

\* mutation: int(round(x / 1000)) for int(x / 1000)
event_time_rounded(header, now) ==
    LET x == Get(header, "eventTime", now)
        q == int_div_1000(x)
        r == x - 1000 * q
    IN  IF r >= 500 THEN q + 1 ELSE IF r <= -500 THEN q - 1 ELSE q

\* int(header.get("eventTime", time.time() * 1000) / 1000); now is the clock
\* reading in milliseconds
event_time(header, now) == int_div_1000(Get(header, "eventTime", now))

\* mutation: the event carries data["event"] instead of data
onebot_event_raw_body_only(d, header, uuid, now) ==
    [id |-> Get(header, "eventId", uuid),
     time |-> event_time(header, now),
     type |-> "",
     detail_type |-> "",
     sub_type |-> "",
     platform |-> "yunhu",
     self |-> [platform |-> "yunhu", user_id |-> ""],
     user_nickname |-> "",
     yunhu_raw |-> Get(d.items, "event", EmptyDict)]

\* the base event; uuid is the value of str(uuid.uuid4())
onebot_event(d, header, uuid, now) ==
    [id |-> Get(header, "eventId", uuid),
     time |-> event_time(header, now),
     type |-> "",
     detail_type |-> "",
     sub_type |-> "",
     platform |-> "yunhu",
     self |-> [platform |-> "yunhu", user_id |-> ""],
     user_nickname |-> "",
     yunhu_raw |-> d]

\* mutation: an event type the map lacks is dispatched under its own name
mapped_type_or_itself(event_type) == Get(event_map, event_type, event_type)

\* self.event_map.get(event_type, "")
mapped_type(event_type) == Get(event_map, event_type, EmptyStr)

\* if "." in mapped_type: split it into type, detail_type and sub_type
split_mapped_type(base_event, mapped) ==
    IF Len(mapped) > 1
    THEN LET typed == [base_event EXCEPT !["type"] = mapped[1],
                                         !["detail_type"] = mapped[2]]
         IN  IF Len(mapped) > 2
             THEN [typed EXCEPT !["sub_type"] = mapped[3]]
             ELSE typed
    ELSE base_event

handler_map ==
    (<<"message">> :> "_handle_message_event") @@
    (<<"notice", "friend_increase">> :> "_handle_friend_event") @@
    (<<"notice", "friend_decrease">> :> "_handle_friend_event") @@
    (<<"notice", "group_member_increase">> :> "_handle_group_member_event") @@
    (<<"notice", "group_member_decrease">> :> "_handle_group_member_event") @@
    (<<"notice", "yunhu_button_click">> :> "_handle_button_event") @@
    (<<"notice", "yunhu_shortcut_menu">> :> "_handle_menu_event") @@
    (<<"notice", "yunhu_bot_setting">> :> "_handle_setting_event")

\* handler(event_type, data.get("event", {}), onebot_event)
call_handler(handler, event_type, event_data, base_event) ==
    CASE handler = "_handle_message_event" ->
            _handle_message_event(event_type, event_data, base_event)
      [] handler = "_handle_friend_event" ->
            _handle_friend_event(event_type, event_data, base_event)
      [] handler = "_handle_group_member_event" ->
            _handle_group_member_event(event_type, event_data, base_event)
      [] handler = "_handle_button_event" ->
            _handle_button_event(event_type, event_data, base_event)
      [] handler = "_handle_menu_event" ->
            _handle_menu_event(event_type, event_data, base_event)
      [] handler = "_handle_setting_event" ->
            _handle_setting_event(event_type, event_data, base_event)

convert(d, uuid, now) ==
    IF ~isinstance_dict(d) THEN Raise("ValueError")
    ELSE LET header == Get(d.items, "header", EmptyDict)
         IN  IF not_event_type(header) THEN Raise("ValueError")
             ELSE LET event_type == header["eventType"]
                      mapped == mapped_type(event_type)
                      base_event == split_mapped_type(onebot_event(d, header, uuid, now),
                                                      mapped)
                      handler == Get(handler_map, mapped, "None")
                  IN  IF handler # "None"
                      THEN Return(call_handler(handler, event_type,
                                               Get(d.items, "event", EmptyDict), base_event))
                      ELSE Return(None)

(***************************************************************************)
(* The payloads convert is called on                                       *)
(***************************************************************************)
\* largest whole second of the eventTime values tried around zero
MaxSeconds == 2

\* longest selectStatus and selectValues list of a checkbox field
MaxOptions == 3

\* an optional value: <<>> when the key is absent, <<v>> when it holds v
Maybe(S) == {<<>>} \cup {<<v>> : v \in S}

OptItem(k, o) == IF o = <<>> THEN EmptyDict ELSE Item(k, o[1])

\* the key k holding the dict d, left out when d is empty
SubDict(k, d) == IF DOMAIN d = {} THEN EmptyDict ELSE Item(k, d)

PyDict(d) == [py |-> "dict", items |-> d]

ClassifiedTypes == DOMAIN event_map

UnclassifiedTypes ==
    {<<"message">>, <<"notice", "friend_increase">>, <<"message", "receive">>,
     <<"message", "receive", "instruction", "x">>, <<"group", "kick">>, <<"foo">>}

EventTypes == ClassifiedTypes \cup UnclassifiedTypes \cup {EmptyStr}

EventTimes ==
    {q * 1000 + r : q \in (-MaxSeconds)..MaxSeconds, r \in {0, 1, 500, 999}}
        \cup {1000000, 2147483647}

ClockMs == {1500, 1700000999}

UUIDs == {"uuid-1", "uuid-2"}

Texts == {<<>>, <<"h", "i">>, <<" ">>}

Button(text) == [text |-> text, actionType |-> 3, value |-> "v"]

ButtonLists == {<<>>, <<Button("ok")>>, <<Button("yes"), Button("no")>>}

ContentTypes == {"text", "image", "video", "file", "form", "audio"}

Labels == {<<"a">>, <<"b", "c">>}

Lists(S, n) == UNION {[1..k -> S] : k \in 0..n}

CommandTexts ==
    {<<"/", "p", "i", "n", "g", " ", "e", "x", "t", "r", "a", " ", " ", "a", "r", "g", "s">>,
     <<"/", "p", "i", "n", "g">>,
     <<" ", "/", "p", "i", "n", "g", " ", "a", " ">>,
     <<"/", "p", "i", "n", "g", " ", "/", "p", "i", "n", "g", " ", "b">>,
     <<"h", "i">>,
     <<>>}

CommandNames == {<<"p", "i", "n", "g">>, <<"p">>, <<>>}

SampleMedia ==
    [imageUrl |-> "http://i", imageName |-> <<"i", ".", "p", "n", "g">>,
     imageWidth |-> 4, imageHeight |-> 3,
     videoUrl |-> "http://v", videoName |-> <<"v">>, videoDuration |-> 9,
     fileUrl |-> "http://f", fileName |-> <<"f">>, fileSize |-> 7]

SampleForm ==
    << <<"f1", [type |-> "input", label |-> <<"n">>, value |-> <<"x">>]>>,
       <<"f2", [type |-> "switch", label |-> <<"s">>, value |-> TRUE]>>,
       <<"f3", [type |-> "radio", label |-> <<"r">>, selectValue |-> <<"a">>]>> >>

Header(t, i, tm) == OptItem("eventType", t) @@ OptItem("eventId", i) @@ OptItem("eventTime", tm)

SampleHeader(t) == Header(<<t>>, <<"e1">>, <<1000000>>)

\* a body holding the keys every handler reads
SampleEvent ==
    [sender |-> [senderId |-> "u1", senderNickname |-> "nick1"],
     chat |-> [chatId |-> "c1", chatType |-> "bot"],
     message |-> [msgId |-> "m1", contentType |-> "text",
                  content |-> [text |-> <<"h", "i">>],
                  commandName |-> <<"p">>, commandId |-> 5],
     userId |-> "u2", nickname |-> "nick2", chatId |-> "g1", chatType |-> "group",
     msgId |-> "m2", buttonId |-> "b1", value |-> "v1",
     senderId |-> "u3", menuId |-> "menu1", menuType |-> 2, menuAction |-> 3,
     groupId |-> "g2", settingJson |-> [lang |-> "zh"]]

\* not a dict at all
InitNonDict ==
    \E t \in {"NoneType", "str", "list", "int"} : data = [py |-> t]

\* every shape of header, with and without a body
InitHeaders ==
    \E hdr \in BOOLEAN, t \in Maybe(EventTypes), i \in Maybe({"e1"}),
       tm \in Maybe(EventTimes), ev \in BOOLEAN :
        data = PyDict((IF hdr THEN Item("header", Header(t, i, tm)) ELSE EmptyDict)
                      @@ (IF ev THEN Item("event", SampleEvent) ELSE EmptyDict))

\* message events: sender, chat, content type and content vary
InitMessages ==
    \E t \in {<<"message", "receive", "normal">>, <<"message", "receive", "instruction">>},
       who \in BOOLEAN, chatType \in Maybe({"bot", "group", "user"}),
       chatId \in Maybe({"c1"}), ct \in Maybe(ContentTypes), text \in Maybe(Texts),
       buttons \in Maybe(ButtonLists), media \in BOOLEAN :
        LET content == OptItem("text", text) @@ OptItem("buttons", buttons)
                       @@ (IF media THEN SampleMedia @@ Item("formJson", SampleForm)
                           ELSE EmptyDict)
            message == OptItem("contentType", ct) @@ SubDict("content", content)
                       @@ (IF who THEN [msgId |-> "m1", instructionId |-> "i1",
                                        instructionName |-> <<"f">>,
                                        commandName |-> <<"p">>, commandId |-> 12]
                           ELSE EmptyDict)
            chat == OptItem("chatType", chatType) @@ OptItem("chatId", chatId)
            event == SubDict("message", message) @@ SubDict("chat", chat)
                     @@ (IF who THEN Item("sender", [senderId |-> "u1",
                                                     senderNickname |-> "nick1"])
                         ELSE EmptyDict)
        IN  data = PyDict(Item("header", SampleHeader(t)) @@ SubDict("event", event))

\* form messages with one checkbox field: both lists vary in length and content
InitForms ==
    \E t \in {<<"message", "receive", "normal">>, <<"message", "receive", "instruction">>},
       selected \in Maybe(Lists(BOOLEAN, MaxOptions)),
       values \in Maybe(Lists(Labels, MaxOptions)) :
        LET field == [type |-> "checkbox", label |-> <<"c">>]
                     @@ OptItem("selectStatus", selected) @@ OptItem("selectValues", values)
            form == <<SampleForm[1], <<"box", field>>, SampleForm[2]>>
            message == [msgId |-> "m1", contentType |-> "form",
                        content |-> [formJson |-> form],
                        instructionId |-> "i1", instructionName |-> <<"f">>]
        IN  data = PyDict(Item("header", SampleHeader(t))
                          @@ Item("event", [message |-> message,
                                            chat |-> [chatId |-> "g1", chatType |-> "group"]]))

\* instruction messages: text, command name and command id vary
InitCommands ==
    \E text \in Maybe(CommandTexts), name \in Maybe(CommandNames),
       cid \in Maybe({0, 12}), ct \in {"text", "form"} :
        LET content == OptItem("text", text)
                       @@ (IF ct = "form" THEN Item("formJson", SampleForm) ELSE EmptyDict)
            message == Item("contentType", ct) @@ SubDict("content", content)
                       @@ OptItem("commandName", name) @@ OptItem("commandId", cid)
        IN  data = PyDict(Item("header", SampleHeader(<<"message", "receive", "instruction">>))
                          @@ Item("event", [message |-> message,
                                            chat |-> [chatId |-> "c1", chatType |-> "bot"]]))

\* notice events: the fields of the body come and go
InitNotices ==
    \E t \in ClassifiedTypes \ {<<"message", "receive", "normal">>,
                                <<"message", "receive", "instruction">>},
       userId \in Maybe({"u2"}), chatId \in Maybe({"g1"}),
       chatType \in Maybe({"group", "bot"}), nickname \in Maybe({"nick2"}),
       more \in BOOLEAN :
        LET event == OptItem("userId", userId) @@ OptItem("chatId", chatId)
                     @@ OptItem("chatType", chatType) @@ OptItem("nickname", nickname)
                     @@ (IF more THEN [msgId |-> "m2", buttonId |-> "b1", value |-> "v1",
                                       senderId |-> "u3", menuId |-> "menu1",
                                       menuType |-> 2, menuAction |-> 3,
                                       groupId |-> "g2", settingJson |-> [lang |-> "zh"]]
                         ELSE EmptyDict)
        IN  data = PyDict(Item("header", SampleHeader(t)) @@ SubDict("event", event))

(***************************************************************************)
(* One call of convert                                                     *)
(***************************************************************************)
Init ==
    /\ pc = "call"
    /\ outcome = [kind |-> "pending"]
    /\ \/ InitNonDict
       \/ InitHeaders
       \/ InitMessages
       \/ InitForms
       \/ InitCommands
       \/ InitNotices

\* the whole call: the caller's object is read, never written
Convert ==
    /\ pc = "call"
    /\ \E uuid \in UUIDs, now \in ClockMs : outcome' = convert(data, uuid, now)
    /\ pc' = "done"
    /\ UNCHANGED data

Next == Convert

Spec == Init /\ [][Next]_vars

(***************************************************************************)
(* What the properties below read                                          *)
(***************************************************************************)
IsDictInput == data.py = "dict"

InHeader == Get(data.items, "header", EmptyDict)

InEvent == Get(data.items, "event", EmptyDict)

InMessage == Get(InEvent, "message", EmptyDict)

InContent == Get(InMessage, "content", EmptyDict)

InChat == Get(InEvent, "chat", EmptyDict)

\* the payload carries a non-empty event type
CarriesEventType ==
    IsDictInput /\ "eventType" \in DOMAIN InHeader /\ InHeader["eventType"] # EmptyStr

Normal == <<"message", "receive", "normal">>

Instruction == <<"message", "receive", "instruction">>

\* the nine keys of the classification table of the specification
TableKeys ==
    {Normal, Instruction, <<"bot", "followed">>, <<"bot", "unfollowed">>,
     <<"group", "join">>, <<"group", "leave">>, <<"button", "report", "inline">>,
     <<"bot", "shortcut", "menu">>, <<"bot", "setting">>}

Called == pc = "done"

ReturnedEvent == Called /\ outcome.kind = "return" /\ outcome.ret # None

MessageEvent == ReturnedEvent /\ InHeader["eventType"] \in {Normal, Instruction}

ButtonPlaceholder == <<"[", "U+6309", "U+94AE", "]">>

HasButtons == "buttons" \in DOMAIN InContent /\ InContent["buttons"] # <<>>

\* a text message with non-empty text
TextMessage ==
    /\ MessageEvent
    /\ Get(InMessage, "contentType", "text") = "text"
    /\ Get(InContent, "text", <<>>) # <<>>

TextSegments == {i \in DOMAIN outcome.ret["message"] : outcome.ret["message"][i].type = "text"}

(***************************************************************************)
(* Properties                                                              *)
(***************************************************************************)
\* C1: a dict payload that carries, as its (non-empty) event type, a string
\* that is not one of the nine keys of the classification table makes convert
\* return None; it raises nothing.
C1_UnclassifiedReturnsNone ==
    (Called /\ CarriesEventType /\ InHeader["eventType"] \notin TableKeys)
        => outcome = Return(None)

C1_Witness ==
    /\ Called
    /\ CarriesEventType
    /\ InHeader["eventType"] = <<"message">>
    /\ "event" \in DOMAIN data.items
    /\ outcome = Return(None)

\* C2: the returned event carries the (type, detail_type, sub_type) triple of
\* the table row of its event type; for message.receive.instruction the
\* sub_type is "command".
C2_TableTriple ==
    ReturnedEvent =>
        LET t == InHeader["eventType"]
            e == outcome.ret
            derived == IF Get(InChat, "chatType", "") = "bot" THEN "private" ELSE "group"
            triple == <<e["type"], e["detail_type"], e["sub_type"]>>
        IN  /\ t = Normal => triple = <<"message", derived, "">>
            /\ t = Instruction => triple = <<"message", derived, "command">>
            /\ t = <<"bot", "followed">> => triple = <<"notice", "friend_increase", "">>
            /\ t = <<"bot", "unfollowed">> => triple = <<"notice", "friend_decrease", "">>
            /\ t = <<"group", "join">> => triple = <<"notice", "group_member_increase", "invite">>
            /\ t = <<"group", "leave">> => triple = <<"notice", "group_member_decrease", "leave">>
            /\ t = <<"button", "report", "inline">>
                  => triple = <<"notice", "yunhu_button_click", "">>
            /\ t = <<"bot", "shortcut", "menu">>
                  => triple = <<"notice", "yunhu_shortcut_menu", "">>
            /\ t = <<"bot", "setting">> => triple = <<"notice", "yunhu_bot_setting", "">>

\* C3: in every call that returns an event, the event's yunhu_raw is present
\* and equals the input as it was before the call, and the input is the same
\* after the call as before it.
C3_RawPayloadPreserved ==
    [][(pc = "call" /\ pc' = "done" /\ outcome'.kind = "return" /\ outcome'.ret # None)
          => /\ data' = data
             /\ "yunhu_raw" \in DOMAIN outcome'.ret
             /\ outcome'.ret["yunhu_raw"] = data]_vars

C3_Witness ==
    /\ MessageEvent
    /\ InHeader["eventType"] = Instruction
    /\ Get(InMessage, "contentType", "text") = "form"
    /\ HasButtons
    /\ outcome.ret["yunhu_raw"] = data

\* the arguments the claim describes: the text without its "/<name>" prefix,
\* trimmed at both ends
ArgsOf(text, name) ==
    LET prefix == <<"/">> \o name
    IN  strip(IF Len(text) >= Len(prefix) /\ SubSeq(text, 1, Len(prefix)) = prefix
              THEN SubSeq(text, Len(prefix) + 1, Len(text))
              ELSE text)

\* C4: every message.receive.instruction event carries under yunhu_command a
\* record whose name is the message's commandName and whose args is the
\* content text without the "/<commandName>" prefix, trimmed.
C4_CommandRecord ==
    (MessageEvent /\ InHeader["eventType"] = Instruction) =>
        /\ "yunhu_command" \in DOMAIN outcome.ret
        /\ outcome.ret["yunhu_command"] # None
        /\ {"name", "id", "args"} \subseteq DOMAIN outcome.ret["yunhu_command"]
        /\ outcome.ret["yunhu_command"]["name"] = Get(InMessage, "commandName", <<>>)
        /\ outcome.ret["yunhu_command"]["args"]
              = ArgsOf(Get(InContent, "text", <<>>), Get(InMessage, "commandName", <<>>))

\* C5, as claimed: a text message with non-empty text yields exactly one text
\* segment, holding the input text, and alt_message is that text, buttons or
\* no buttons.
C5_AltMessageIsText ==
    TextMessage =>
        /\ Cardinality(TextSegments) = 1
        /\ \A i \in TextSegments :
              outcome.ret["message"][i].data = [text |-> InContent["text"]]
        /\ outcome.ret["alt_message"] = InContent["text"]

\* C5, amended: a text message with non-empty text yields exactly one text
\* segment, holding the input text; alt_message is that text when the content
\* has no (non-empty) buttons and that text followed by the button
\* placeholder when it has.
C5_TextSegmentAndAlt ==
    TextMessage =>
        /\ Cardinality(TextSegments) = 1
        /\ \A i \in TextSegments :
              outcome.ret["message"][i].data = [text |-> InContent["text"]]
        /\ outcome.ret["alt_message"]
              = IF HasButtons THEN InContent["text"] \o ButtonPlaceholder
                ELSE InContent["text"]

C5_Witness ==
    /\ TextMessage
    /\ HasButtons
    /\ InContent["text"] = <<"h", "i">>
    /\ Len(outcome.ret["message"]) = 2
    /\ outcome.ret["alt_message"] = <<"h", "i">> \o ButtonPlaceholder

\* C6: every event convert returns has type message or notice and a
\* non-empty detail_type.
C6_TypeAndDetailType ==
    ReturnedEvent =>
        /\ outcome.ret["type"] \in {"message", "notice"}
        /\ outcome.ret["detail_type"] # ""

C6_Witness ==
    /\ MessageEvent
    /\ "chat" \notin DOMAIN InEvent
    /\ outcome.ret["type"] = "message"
    /\ outcome.ret["detail_type"] = "group"

\* C7: a message event of a "bot" chat is private, has the chat id in
\* self.user_id and has no group_id; any other message event is group, has
\* the chat id in group_id and an empty self.user_id.
C7_ChatIdInOnePlace ==
    MessageEvent =>
        LET e == outcome.ret
            chatId == Get(InChat, "chatId", "")
        IN  /\ IF Get(InChat, "chatType", "") = "bot"
               THEN /\ e["detail_type"] = "private"
                    /\ e["self"]["user_id"] = chatId
                    /\ "group_id" \notin DOMAIN e
               ELSE /\ e["detail_type"] = "group"
                    /\ "group_id" \in DOMAIN e
                    /\ e["group_id"] = chatId
                    /\ e["self"]["user_id"] = ""
            /\ "group_id" \in DOMAIN e => e["self"]["user_id"] = ""

C7_Witness ==
    /\ MessageEvent
    /\ Get(InChat, "chatType", "") = "bot"
    /\ Get(InChat, "chatId", "") = "c1"
    /\ outcome.ret["self"]["user_id"] = "c1"
    /\ "group_id" \notin DOMAIN outcome.ret

\* C8: an input that is not a dict, or a dict without header, with a header
\* without eventType, or with an empty eventType, makes convert raise
\* ValueError: no event, no other error.
C8_InvalidInputRaisesValueError ==
    (Called /\ ~CarriesEventType) => outcome = Raise("ValueError")

C8_Witness ==
    /\ Called
    /\ IsDictInput
    /\ "header" \in DOMAIN data.items
    /\ "eventType" \in DOMAIN InHeader
    /\ InHeader["eventType"] = EmptyStr
    /\ outcome = Raise("ValueError")

\* C9: the time of a returned event whose header has an integer eventTime is
\* eventTime divided by 1000 without its fraction: eventTime \div 1000 from 0
\* on, and the same of the magnitude below 0.
C9_TimeIsSeconds ==
    (ReturnedEvent /\ "eventTime" \in DOMAIN InHeader) =>
        LET ms == InHeader["eventTime"]
            t == outcome.ret["time"]
        IN  /\ ms >= 0 => (t = ms \div 1000 /\ ms - 1000 * t \in 0..999)
            /\ ms < 0 => (-t = (-ms) \div 1000 /\ ms - 1000 * t \in (-999)..0)

C9_Witness ==
    /\ ReturnedEvent
    /\ "eventTime" \in DOMAIN InHeader
    /\ InHeader["eventTime"] = 1999
    /\ outcome.ret["time"] = 1

\* the labels whose flag is true, pairing the two lists position by position
\* up to the end of the shorter one
CheckedLabels(values, selected) ==
    LET n == IF Len(values) < Len(selected) THEN Len(values) ELSE Len(selected)
        pairs == [i \in 1..n |-> <<values[i], selected[i]>>]
        chosen == SelectSeq(pairs, LAMBDA p : p[2])
    IN  [i \in 1..Len(chosen) |-> chosen[i][1]]

FormMessage == MessageEvent /\ Get(InMessage, "contentType", "text") = "form"

InForm == Get(InContent, "formJson", <<>>)

\* C10: the value of a checkbox field is the comma-joined list of the labels
\* at the positions that selectStatus has and flags true, in label order,
\* whatever the lengths of the two lists; the call returns an event.
C10_CheckboxValue ==
    (Called /\ CarriesEventType /\ InHeader["eventType"] \in {Normal, Instruction}
        /\ Get(InMessage, "contentType", "text") = "form") =>
        /\ ReturnedEvent
        /\ Len(outcome.ret["message"]) >= 1
        /\ outcome.ret["message"][1].type = "yunhu_form"
        /\ Len(outcome.ret["message"][1].data.fields) = Len(InForm)
        /\ \A i \in 1..Len(InForm) :
              Get(InForm[i][2], "type", "") = "checkbox" =>
                  outcome.ret["message"][1].data.fields[i].value
                      = join(<<",">>, CheckedLabels(Get(InForm[i][2], "selectValues", <<>>),
                                                    Get(InForm[i][2], "selectStatus", <<>>)))

C10_Witness ==
    /\ FormMessage
    /\ \E i \in 1..Len(InForm) :
          /\ Get(InForm[i][2], "type", "") = "checkbox"
          /\ Get(InForm[i][2], "selectStatus", <<>>) = <<TRUE, FALSE>>
          /\ Get(InForm[i][2], "selectValues", <<>>) = << <<"a">>, <<"b", "c">>, <<"a">> >>
          /\ outcome.ret["message"][1].data.fields[i].value = <<"a">>

====
